---- MODULE Spec2Model ----
(***************************************************************************)
(* YOLOTrainer (src/lib/trains/yolotrainer.py): device binding and the     *)
(* epoch loop, as a state machine.                                          *)
(*                                                                          *)
(* The trainer is one Python object driven by a single control thread.  A  *)
(* caller may invoke set_device and run_epoch (through train / val) in any *)
(* order and any number of times.  set_device is one step; run_epoch is    *)
(* followed line by line through pc.  The trainer is constructed with an   *)
(* optimizer (set_device dereferences it unconditionally).                 *)
(*                                                                          *)
(* Collaborators that are not part of the trainer's source are modelled by *)
(* their documented contract: the running statistic (AverageMeter), the    *)
(* replica wrapper (DataParallel) and device availability.  Wall-clock     *)
(* quantities (data_time, batch_time, ret['time'], elapsed/ETA text) carry *)
(* no control flow and are left out.  Loss values are small integers and   *)
(* an average is the exact fraction sum/count in lowest terms.             *)
(***************************************************************************)
EXTENDS Integers, Sequences, FiniteSets, TLC

----------------------------------------------------------------------------
(* Bounds of the exploration *)

\* a data loader yields, and declares, at most this many batches
MaxBatches == 2
\* opt.num_iters ranges over -1 .. MaxNumIters
MaxNumIters == 1
\* cuda devices present on the machine: indices 0 .. NumDevices-1
NumDevices == 2
\* set_device stops adding replica wrappers at this nesting depth
MaxWrapDepth == 2
\* a train epoch starts only while the optimizer has taken fewer steps
MaxOptSteps == 1

----------------------------------------------------------------------------
(* Values *)

loss_stats == {"tot_loss", "iou_loss", "conf_loss", "cls_loss", "reid_loss"}

\* phase values: train() passes 'train', val() passes 'val'; any other value,
\* such as 'test', can be passed to run_epoch directly
Phases == {"train", "val", "test"}

CpuDevice == [type |-> "cpu", index |-> 0]
CudaDevice(i) == [type |-> "cuda", index |-> i]

\* opt.device as a caller may pass it: the cpu, the primary cuda device, or
\* a cuda device that is not on the machine (index NumDevices)
Devices == {CpuDevice, CudaDevice(0), CudaDevice(NumDevices)}

\* the ids of S in increasing order
RECURSIVE Ascending(_)
Ascending(S) ==
    IF S = {} THEN <<>>
    ELSE LET m == CHOOSE x \in S : \A y \in S : x <= y
         IN  <<m>> \o Ascending(S \ {m})

\* device lists a caller may pass as gpus: the first k devices (one more than
\* the machine has, at most), and lists that name an id not on the machine
GpuLists ==
    {Ascending(0..(k - 1)) : k \in 0..(NumDevices + 1)}
        \cup {<<NumDevices>>, <<0, NumDevices>>}

\* the LossReports a forward call may return
LowReport == [l \in loss_stats |-> 2]
HighReport == [l \in loss_stats |-> IF l = "tot_loss" THEN 4 ELSE 1]

\* batches a loader may yield: n = imgs.size(0) samples, and the LossReport
\* the model computes for them
Batches ==
    { [n |-> 3, stats |-> LowReport],
      [n |-> 1, stats |-> HighReport] }

\* image ids a batch handed to save_result may carry
ImgIds == {1, 2}

NoBatch == [n |-> 0, stats |-> [l \in loss_stats |-> 0]]

Params == {"p1", "p2"}

Tensor(d, x) == [kind |-> "tensor", dev |-> d, val |-> x]
Scalar(x) == [kind |-> "scalar", dev |-> CpuDevice, val |-> x]

RECURSIVE GCD(_, _)
GCD(a, b) == IF b = 0 THEN a ELSE GCD(b, a % b)

\* the float a / b (b > 0) as an exact fraction in lowest terms
Frac(a, b) == <<a \div GCD(a, b), b \div GCD(a, b)>>

----------------------------------------------------------------------------
(* Collaborators, by contract *)

\* a device exists when it is the cpu or a cuda index present on the machine
DeviceExists(d) == d.type = "cpu" \/ d.index < NumDevices

\* DataParallel(model, device_ids, chunk_sizes): one more wrapper around the
\* model; it needs every replica device to exist
DataParallelOk(dev_ids) == \A i \in dev_ids : DeviceExists(CudaDevice(i))

\* AverageMeter(): no update yet
AverageMeter == [sum |-> 0, count |-> 0]

\* AverageMeter.update(val, n)
MeterUpdateFails(n) == n <= 0
MeterUpdate(m, val, n) == [sum |-> m.sum + val * n, count |-> m.count + n]

\* AverageMeter.avg
MeterAvgFails(m) == m.count = 0
MeterAvg(m) == Frac(m.sum, m.count)

\* optimizer.step(): every parameter's step counter advances
OptimizerStep(o) ==
    [o EXCEPT !.state =
        [p \in DOMAIN o.state |->
            [o.state[p] EXCEPT !["step"] = Scalar(o.state[p]["step"].val + 1)]]]

OptimizerSteps(o) == o.state["p1"]["step"].val

----------------------------------------------------------------------------
(* State *)

VARIABLES
    opt,             \* self.opt: num_iters, gpus, print_iter
    model,           \* self.model: number of DataParallel wrappers around the network
    modelDevice,     \* device the model's parameters are on
    training,        \* .training flag of each layer: 0 the network, k the k-th wrapper
    optimizer,       \* self.optimizer: its state mapping
    bound,           \* whether a set_device call has returned on this trainer
    pc,              \* position of the control thread
    phase,           \* run_epoch: phase
    loader,          \* run_epoch: data_loader
    fwdModel,        \* run_epoch: local model, the layer that receives forward
    num_iters,       \* run_epoch: local num_iters
    batch_i,         \* run_epoch: index of the batch last drawn
    batch,           \* run_epoch: batch in process
    avg_loss_stats,  \* run_epoch: one AverageMeter per loss name
    bar,             \* run_epoch: progress bar
    results,         \* run_epoch: results mapping
    ret,             \* run_epoch: returned loss averages
    call,            \* the call in progress or last completed, with its outcome
    model0,          \* self.model when the call began
    optimizer0,      \* self.optimizer when the call began
    log,             \* collaborator calls made by the call, in order
    seen             \* batches forwarded by the call, in order

trainerVars == <<opt, model, modelDevice, training, optimizer, bound>>
frameVars == <<phase, loader, fwdModel, num_iters, batch_i, batch,
               avg_loss_stats, bar, results, ret>>
vars == <<opt, model, modelDevice, training, optimizer, bound, pc, phase, loader,
          fwdModel, num_iters, batch_i, batch, avg_loss_stats, bar, results,
          ret, call, model0, optimizer0, log, seen>>

NoResults == [i \in {} |-> <<>>]
NoRet == [l \in {} |-> <<0, 1>>]
NoLoader == [len |-> 0, total |-> 0, drawn |-> 0]
NoBar == [max |-> 0, index |-> 0, printed |-> 0, finished |-> FALSE]
NoCall == [op |-> "none", gpus |-> <<>>, device |-> CpuDevice, img_id |-> 0,
           outcome |-> "none", err |-> "none"]

\* YOLOTrainer.__init__: a network on the cpu, optimizer state as loaded
Init ==
    /\ opt \in [num_iters : -1..MaxNumIters,
                gpus : {<<0>>, <<0, 1>>},
                print_iter : {0, 2}]
    /\ model = 0
    /\ modelDevice = CpuDevice
    /\ training = [d \in 0..MaxWrapDepth |-> TRUE]
    /\ optimizer = [state |-> [p \in Params |->
                        [k \in {"step", "exp_avg"} |->
                            IF k = "step" THEN Scalar(0) ELSE Tensor(CpuDevice, p)]]]
    /\ bound = FALSE
    /\ pc = "idle"
    /\ phase = "train"
    /\ loader = NoLoader
    /\ fwdModel = 0
    /\ num_iters = 0
    /\ batch_i = 0
    /\ batch = NoBatch
    /\ avg_loss_stats = [l \in loss_stats |-> AverageMeter]
    /\ bar = NoBar
    /\ results = NoResults
    /\ ret = NoRet
    /\ call = NoCall
    /\ model0 = 0
    /\ optimizer0 = optimizer
    /\ log = <<>>
    /\ seen = <<>>

\* outside run_epoch its locals do not exist
NoLocals ==
    /\ phase' = "train"
    /\ loader' = NoLoader
    /\ fwdModel' = 0
    /\ num_iters' = 0
    /\ batch_i' = 0
    /\ batch' = NoBatch
    /\ avg_loss_stats' = [l \in loss_stats |-> AverageMeter]
    /\ bar' = NoBar
    /\ ret' = NoRet

NoFrame == NoLocals /\ results' = NoResults

----------------------------------------------------------------------------
(* Raising and returning *)

\* variant: the exception is caught and noted, and the loop goes on
Raise_swallowed(e) ==
    /\ pc' = "loop"
    /\ call' = [call EXCEPT !.err = e]

\* an exception leaves the method; nothing in the trainer catches it
Raise(e) ==
    /\ pc' = "idle"
    /\ call' = [call EXCEPT !.outcome = "raised", !.err = e]

Return ==
    /\ pc' = "idle"
    /\ call' = [call EXCEPT !.outcome = "returned"]

----------------------------------------------------------------------------
(* set_device *)

\* dev_ids = [i for i in range(len(gpus))]
dev_ids(gpus) == {i - 1 : i \in 1..Len(gpus)}

\* variant: the wrapper is added for any non-empty device list
WrapsModel_nonEmpty(gpus) == Len(gpus) > 0

\* if len(gpus) > 1: wrap in DataParallel
WrapsModel(gpus) == Len(gpus) > 1

\* variant: the isinstance test is missing, every entry becomes a device tensor
MigrateState_all(state, device) ==
    [p \in DOMAIN state |->
        [k \in DOMAIN state[p] |-> Tensor(device, state[p][k].val)]]

\* variant: the optimizer state stays where it was
MigrateState_none(state, device) == state

\* for state in optimizer.state.values(): for k, v in state.items():
\*     if isinstance(v, torch.Tensor): state[k] = v.to(device)
MigrateState(state, device) ==
    [p \in DOMAIN state |->
        [k \in DOMAIN state[p] |->
            IF state[p][k].kind = "tensor"
            THEN Tensor(device, state[p][k].val)
            ELSE state[p][k]]]

set_device(gpus, device) ==
    /\ pc = "idle"
    /\ WrapsModel(gpus) => model < MaxWrapDepth
    /\ model0' = model
    /\ optimizer0' = optimizer
    /\ LET failed == \/ WrapsModel(gpus) /\ ~DataParallelOk(dev_ids(gpus))
                     \/ ~DeviceExists(device)
       IN  /\ call' = [op |-> "set_device", gpus |-> gpus, device |-> device,
                       img_id |-> 0,
                       outcome |-> IF failed THEN "raised" ELSE "returned",
                       err |-> IF failed THEN "DeviceUnavailable" ELSE "none"]
           /\ IF failed
              THEN UNCHANGED <<model, modelDevice, training, optimizer, bound>>
              ELSE /\ bound' = TRUE
                   /\ model' = IF WrapsModel(gpus) THEN model + 1 ELSE model
                   /\ modelDevice' = device
                   /\ training' = IF WrapsModel(gpus)
                                  THEN [training EXCEPT ![model + 1] = TRUE]
                                  ELSE training
                   /\ optimizer' = [optimizer EXCEPT
                                      !.state = MigrateState(optimizer.state, device)]
    /\ log' = <<>>
    /\ seen' = <<>>
    /\ NoFrame
    /\ UNCHANGED <<opt, pc>>

SetDevice == \E gpus \in GpuLists, device \in Devices : set_device(gpus, device)

----------------------------------------------------------------------------
(* run_epoch *)

\* variant: an override of 0 counts as unset
NumIters_zeroUnset(o, declared) == IF o.num_iters <= 0 THEN declared ELSE o.num_iters

\* num_iters = len(data_loader) if opt.num_iters < 0 else opt.num_iters
NumIters(o, declared) == IF o.num_iters < 0 THEN declared ELSE o.num_iters

\* if batch_i >= num_iters: break
BreaksLoop(i, cap) == i >= cap

\* variant: the train branch is taken in every phase
Backwards_always(ph) == ph \in Phases

\* if phase == 'train': zero_grad, backward, step
Backwards(ph) == ph = "train"

\* variant: the train branch does not clear the gradients
AfterForward_noZeroGrad(ph) == IF ph = "train" THEN "backward" ELSE "stats"

\* after forward: the train branch or straight to the statistics
AfterForward(ph) == IF Backwards(ph) THEN "zero_grad" ELSE "stats"

\* variant: every batch weighs the same
StatWeight_one(b) == 1

\* imgs.size(0), the weight of a batch in the running statistics
StatWeight(b) == b.n

\* variant: only the train phase sets the mode, eval keeps what it finds
SetMode_trainOnly(flags, d, mode) ==
    IF mode THEN [x \in DOMAIN flags |-> IF x <= d THEN TRUE ELSE flags[x]]
    ELSE flags

\* model.train() / model.eval() on layer d reaches d and everything inside it
SetMode(flags, d, mode) ==
    [x \in DOMAIN flags |-> IF x <= d THEN mode ELSE flags[x]]

\* variant: the eval phase forwards through self.model as it is
LocalModel_noUnwrap(ph, o, m) == m

\* model = self.model; in a phase other than train with len(opt.gpus) > 1,
\* model = self.model.module
LocalModel(ph, o, m) == IF ph # "train" /\ Len(o.gpus) > 1 THEN m - 1 ELSE m

\* variant: the statistics of the previous call are used again
FreshStats_reused == avg_loss_stats

\* avg_loss_stats = {l: AverageMeter() for l in self.loss_stats}
FreshStats == [l \in loss_stats |-> AverageMeter]

\* lines 52-70: mode setup, fresh statistics, cap, progress bar
run_epoch(ph, declared, total) ==
    /\ pc = "idle"
    /\ Backwards(ph) => OptimizerSteps(optimizer) < MaxOptSteps
    /\ model0' = model
    /\ optimizer0' = optimizer
    /\ phase' = ph
    /\ loader' = [len |-> declared, total |-> total, drawn |-> 0]
    /\ log' = <<>>
    /\ seen' = <<>>
    /\ results' = NoResults
    /\ ret' = NoRet
    /\ avg_loss_stats' = FreshStats
    /\ batch_i' = 0
    /\ batch' = NoBatch
    /\ IF LocalModel(ph, opt, model) < 0
       THEN \* self.model.module on a model that has no wrapper
            /\ pc' = "idle"
            /\ call' = [op |-> "run_epoch", gpus |-> <<>>, device |-> CpuDevice,
                        img_id |-> 0,
                        outcome |-> "raised", err |-> "AttributeError"]
            /\ num_iters' = 0
            /\ bar' = NoBar
            /\ fwdModel' = model
            /\ UNCHANGED training
       ELSE /\ pc' = "loop"
            /\ call' = [op |-> "run_epoch", gpus |-> <<>>, device |-> CpuDevice,
                        img_id |-> 0,
                        outcome |-> "running", err |-> "none"]
            /\ num_iters' = NumIters(opt, declared)
            /\ bar' = [NoBar EXCEPT !.max = NumIters(opt, declared)]
            /\ fwdModel' = LocalModel(ph, opt, model)
            /\ training' = SetMode(training, fwdModel', ph = "train")
    /\ UNCHANGED <<opt, model, modelDevice, optimizer, bound>>

\* train(epoch, data_loader), val(epoch, data_loader) and run_epoch itself
RunEpoch ==
    \E ph \in Phases, declared \in 0..MaxBatches, total \in 0..MaxBatches :
        run_epoch(ph, declared, total)

\* line 73, the loader has no further batch: the loop ends
LoopExhausted ==
    /\ pc = "loop"
    /\ loader.drawn = loader.total
    /\ pc' = "shuffle"
    /\ UNCHANGED <<call, model0, optimizer0, log, seen>>
    /\ UNCHANGED trainerVars
    /\ UNCHANGED frameVars

\* lines 73-75: the loader yields batch number batch_i; the cap may break
LoopNext ==
    /\ pc = "loop"
    /\ loader.drawn < loader.total
    /\ \E b \in Batches :
          /\ loader' = [loader EXCEPT !.drawn = @ + 1]
          /\ batch_i' = loader.drawn
          /\ IF BreaksLoop(batch_i', num_iters)
             THEN pc' = "shuffle" /\ batch' = NoBatch
             ELSE pc' = "forward" /\ batch' = b
    /\ UNCHANGED <<call, model0, optimizer0, log, seen>>
    /\ UNCHANGED trainerVars
    /\ UNCHANGED <<phase, fwdModel, num_iters, avg_loss_stats, bar, results, ret>>

\* lines 77-85: model.forward(imgs, (det_labels, track_ids))
Forward ==
    /\ pc = "forward"
    /\ log' = Append(log, "forward")
    /\ seen' = Append(seen, batch)
    /\ \E ok \in BOOLEAN :
          IF ok THEN pc' = AfterForward(phase) /\ UNCHANGED call
                ELSE Raise("ForwardError")
    /\ UNCHANGED <<model0, optimizer0>>
    /\ UNCHANGED trainerVars
    /\ UNCHANGED frameVars

\* line 89: self.optimizer.zero_grad()
ZeroGrad ==
    /\ pc = "zero_grad"
    /\ log' = Append(log, "zero_grad")
    /\ pc' = "backward"
    /\ UNCHANGED <<call, model0, optimizer0, seen>>
    /\ UNCHANGED trainerVars
    /\ UNCHANGED frameVars

\* line 90: loss.backward()
Backward ==
    /\ pc = "backward"
    /\ log' = Append(log, "backward")
    /\ \E ok \in BOOLEAN :
          IF ok THEN pc' = "step" /\ UNCHANGED call
                ELSE Raise("BackwardError")
    /\ UNCHANGED <<model0, optimizer0, seen>>
    /\ UNCHANGED trainerVars
    /\ UNCHANGED frameVars

\* line 91: self.optimizer.step()
Step ==
    /\ pc = "step"
    /\ log' = Append(log, "step")
    /\ \E ok \in BOOLEAN :
          IF ok THEN /\ pc' = "stats"
                     /\ optimizer' = OptimizerStep(optimizer)
                     /\ UNCHANGED call
                ELSE /\ Raise("StepError")
                     /\ UNCHANGED optimizer
    /\ UNCHANGED <<model0, optimizer0, seen>>
    /\ UNCHANGED <<opt, model, modelDevice, training, bound>>
    /\ UNCHANGED frameVars

\* variant: the bar is advanced whether or not a line is printed
Progress_both(b, i) ==
    IF opt.print_iter > 0 /\ i % opt.print_iter = 0
    THEN [b EXCEPT !.printed = @ + 1, !.index = @ + 1]
    ELSE [b EXCEPT !.index = @ + 1]

\* lines 107-111: print every opt.print_iter batches, or advance the bar
Progress(b, i) ==
    IF opt.print_iter > 0
    THEN IF i % opt.print_iter = 0 THEN [b EXCEPT !.printed = @ + 1] ELSE b
    ELSE [b EXCEPT !.index = @ + 1]

\* variant: the progress line is composed before the statistic is updated
SuffixStat_stale(old, new) == old

\* line 102: the progress line shows avg_loss_stats[l].avg, read after the
\* update of line 101
SuffixStat(old, new) == new

\* lines 93-113: update every running statistic, report progress, drop the batch
UpdateStats ==
    /\ pc = "stats"
    /\ LET updated == [l \in loss_stats |->
                         MeterUpdate(avg_loss_stats[l], batch.stats[l],
                                     StatWeight(batch))]
       IN  IF MeterUpdateFails(StatWeight(batch))
           THEN /\ Raise("InvalidArgument")
                /\ UNCHANGED <<avg_loss_stats, bar, batch>>
           ELSE IF \E l \in loss_stats :
                       MeterAvgFails(SuffixStat(avg_loss_stats[l], updated[l]))
           THEN /\ Raise("DivideByZero")
                /\ avg_loss_stats' = updated
                /\ UNCHANGED <<bar, batch>>
           ELSE /\ avg_loss_stats' = updated
                /\ bar' = Progress(bar, batch_i)
                /\ batch' = NoBatch
                /\ pc' = "loop"
                /\ UNCHANGED call
    /\ UNCHANGED <<model0, optimizer0, log, seen>>
    /\ UNCHANGED trainerVars
    /\ UNCHANGED <<phase, loader, fwdModel, num_iters, batch_i, results, ret>>

\* variant: the shuffle is the loop's else clause, skipped when the cap breaks
Shuffle_unlessBroken ==
    /\ pc = "shuffle"
    /\ log' = IF loader.drawn > num_iters THEN log ELSE Append(log, "shuffle")
    /\ pc' = "finish"
    /\ UNCHANGED <<call, model0, optimizer0, seen>>
    /\ UNCHANGED trainerVars
    /\ UNCHANGED frameVars

\* line 116: data_loader.dataset.shuffle()
Shuffle ==
    /\ pc = "shuffle"
    /\ log' = Append(log, "shuffle")
    /\ pc' = "finish"
    /\ UNCHANGED <<call, model0, optimizer0, seen>>
    /\ UNCHANGED trainerVars
    /\ UNCHANGED frameVars

\* variant: a statistic without update reports 0 instead of failing
Finish_zeroAvg ==
    /\ pc = "finish"
    /\ bar' = [bar EXCEPT !.finished = TRUE]
    /\ Return
    /\ ret' = [l \in loss_stats |->
                 IF avg_loss_stats[l].count = 0 THEN <<0, 1>>
                 ELSE MeterAvg(avg_loss_stats[l])]
    /\ UNCHANGED <<model0, optimizer0, log, seen>>
    /\ UNCHANGED trainerVars
    /\ UNCHANGED <<phase, loader, fwdModel, num_iters, batch_i, batch,
                   avg_loss_stats, results>>

\* lines 118-122: bar.finish(), ret = {k: v.avg ...}, return ret, results
Finish ==
    /\ pc = "finish"
    /\ bar' = [bar EXCEPT !.finished = TRUE]
    /\ IF \E l \in loss_stats : MeterAvgFails(avg_loss_stats[l])
       THEN Raise("DivideByZero") /\ UNCHANGED ret
       ELSE Return /\ ret' = [l \in loss_stats |-> MeterAvg(avg_loss_stats[l])]
    /\ UNCHANGED <<model0, optimizer0, log, seen>>
    /\ UNCHANGED trainerVars
    /\ UNCHANGED <<phase, loader, fwdModel, num_iters, batch_i, batch,
                   avg_loss_stats, results>>

----------------------------------------------------------------------------
(* save_result *)

\* lines 124-140.  Line 126 calls mot_decode, a name the module neither
\* imports nor defines: the call raises NameError there, before line 140
\* would store the detections under the batch's first image id.
save_result(img_id) ==
    /\ pc = "idle"
    /\ call' = [op |-> "save_result", gpus |-> <<>>, device |-> CpuDevice,
                img_id |-> img_id, outcome |-> "raised", err |-> "NameError"]
    /\ model0' = model
    /\ optimizer0' = optimizer
    /\ log' = <<>>
    /\ seen' = <<>>
    /\ NoLocals
    /\ UNCHANGED results
    /\ UNCHANGED pc
    /\ UNCHANGED trainerVars

SaveResult == \E img_id \in ImgIds : save_result(img_id)

Next ==
    \/ SetDevice
    \/ RunEpoch
    \/ LoopExhausted
    \/ LoopNext
    \/ Forward
    \/ ZeroGrad
    \/ Backward
    \/ Step
    \/ UpdateStats
    \/ Shuffle
    \/ Finish
    \/ SaveResult

Spec == Init /\ [][Next]_vars

----------------------------------------------------------------------------
(* Properties *)

Min(a, b) == IF a <= b THEN a ELSE b

RECURSIVE Count(_, _)
Count(s, x) ==
    IF s = <<>> THEN 0
    ELSE (IF Head(s) = x THEN 1 ELSE 0) + Count(Tail(s), x)

\* a run_epoch call has begun and is the latest call
InEpoch == call.op = "run_epoch"

\* the latest call was run_epoch and it returned (ret, results)
Returned == pc = "idle" /\ call.op = "run_epoch" /\ call.outcome = "returned"

\* the latest call was run_epoch and it has ended, by return or by exception
Ended == pc = "idle" /\ call.op = "run_epoch"

\* the latest call was set_device and it returned
Bound == pc = "idle" /\ call.op = "set_device" /\ call.outcome = "returned"

\* batch cycles of the call: forward calls on the model
Cycles == Count(log, "forward")

\* the iteration cap as the configuration defines it
Cap == IF opt.num_iters >= 0 THEN opt.num_iters ELSE loader.len

\* C1: a run_epoch call never performs more than C batch cycles, and one that
\* returns has performed exactly min(C, L) of them, where C is opt.num_iters
\* when that is >= 0 and the loader's declared length otherwise, and L is the
\* number of batches the loader yields.
C1_CyclesAreMinOfCapAndLoader ==
    /\ InEpoch => Cycles <= Cap
    /\ Returned => Cycles = Min(Cap, loader.total)

\* a returned call that the cap cut short of the loader
C1_Witness ==
    Returned /\ Cap >= 1 /\ loader.total > Cap /\ Cycles = Cap

\* C2: when run_epoch returns, dataset.shuffle() has been called exactly once
\* in that call, as the last collaborator call, after every batch cycle; no
\* batch cycle is in progress once it has been called.
C2_ShuffledOnceAfterLastCycle ==
    /\ Returned => /\ Count(log, "shuffle") = 1
                   /\ log[Len(log)] = "shuffle"
    /\ pc \in {"loop", "forward", "zero_grad", "backward", "step", "stats"}
          => Count(log, "shuffle") = 0

\* a returned eval call whose loop was ended by the cap, after one cycle
C2_Witness ==
    Returned /\ phase = "val" /\ Cycles >= 1 /\ loader.total > Cycles

\* C3: in a run_epoch call whose phase is not 'train', zero_grad, backward and
\* step are never called and the optimizer is as it was when the call began.
C3_EvalLeavesOptimizerAlone ==
    (InEpoch /\ phase # "train") =>
        /\ Count(log, "zero_grad") = 0
        /\ Count(log, "backward") = 0
        /\ Count(log, "step") = 0
        /\ optimizer = optimizer0

\* a returned eval call over two batches
C3_Witness ==
    Returned /\ phase = "val" /\ Cycles = 2

RECURSIVE WeightedSum(_, _)
WeightedSum(bs, l) ==
    IF bs = <<>> THEN 0
    ELSE Head(bs).stats[l] * Head(bs).n + WeightedSum(Tail(bs), l)

RECURSIVE Samples(_)
Samples(bs) == IF bs = <<>> THEN 0 ELSE Head(bs).n + Samples(Tail(bs))

\* C4: for every loss name, the value run_epoch returns is
\* sum(v_i * n_i) / sum(n_i) over the batches the call processed: the
\* sample-weighted mean.
C4_ReturnsSampleWeightedMean ==
    Returned =>
        /\ DOMAIN ret = loss_stats
        /\ \A l \in loss_stats :
              /\ ret[l][2] > 0
              /\ ret[l][1] * Samples(seen) = WeightedSum(seen, l) * ret[l][2]

\* value 2 with 3 samples, then value 4 with 1 sample: 5/2, not 3
C4_Witness ==
    /\ Returned
    /\ seen = << [n |-> 3, stats |-> LowReport], [n |-> 1, stats |-> HighReport] >>
    /\ ret["tot_loss"] = <<5, 2>>

\* C5: the results mapping returned by an evaluation pass over M batches of
\* one image each holds exactly M keys.
C5_ResultsHoldOneKeyPerImage ==
    (Returned /\ phase # "train" /\ \A i \in 1..Len(seen) : seen[i].n = 1)
        => Cardinality(DOMAIN results) = Len(seen)

\* C6, as claimed: after set_device the model is wrapped if and only if
\* len(gpus) > 1, and with at most one gpu it is the bare model on the device.
C6_WrappedIffSeveralGpus ==
    Bound =>
        /\ (model > 0) <=> (Len(call.gpus) > 1)
        /\ Len(call.gpus) <= 1 => (model = 0 /\ modelDevice = call.device)

\* C6, amended: set_device adds one wrapper around the model it finds if
\* len(gpus) > 1 and adds and removes none otherwise, and the model is on the
\* device; so a model that had no wrapper before the call is wrapped
\* afterwards if and only if len(gpus) > 1.
C6_WrapperAddedIffSeveralGpus ==
    Bound =>
        /\ model = model0 + (IF Len(call.gpus) > 1 THEN 1 ELSE 0)
        /\ modelDevice = call.device
        /\ model0 = 0 => ((model > 0) <=> (Len(call.gpus) > 1))

\* a bare model bound to two gpus
C6_Witness ==
    Bound /\ model0 = 0 /\ Len(call.gpus) = 2 /\ model = 1

AllTensorsOn(o, d) ==
    \A p \in DOMAIN o.state : \A k \in DOMAIN o.state[p] :
        o.state[p][k].kind = "tensor" => o.state[p][k].dev = d

\* C7: after set_device every tensor of optimizer.state is on the device,
\* under the same parameter and key and with the same content, and every
\* other entry is as before; a migration to the device the tensors are
\* already on leaves optimizer.state as it was.
C7_MigrationIdempotent ==
    Bound =>
        /\ DOMAIN optimizer.state = DOMAIN optimizer0.state
        /\ \A p \in DOMAIN optimizer0.state :
              /\ DOMAIN optimizer.state[p] = DOMAIN optimizer0.state[p]
              /\ \A k \in DOMAIN optimizer0.state[p] :
                    IF optimizer0.state[p][k].kind = "tensor"
                    THEN optimizer.state[p][k] =
                            Tensor(call.device, optimizer0.state[p][k].val)
                    ELSE optimizer.state[p][k] = optimizer0.state[p][k]
        /\ AllTensorsOn(optimizer0, call.device) => optimizer = optimizer0

\* a second migration to the cuda device the first one moved the tensors to
C7_Witness ==
    /\ Bound
    /\ call.device = CudaDevice(0)
    /\ AllTensorsOn(optimizer0, CudaDevice(0))
    /\ optimizer = optimizer0

\* C8, as claimed: a run_epoch call that performs zero batch cycles ends
\* with DivideByZero.
C8_NoCycleEndsDivideByZero ==
    (Ended /\ Cycles = 0) =>
        (call.outcome = "raised" /\ call.err = "DivideByZero")

\* C8, amended: a run_epoch call that performs zero batch cycles never
\* returns; it ends with DivideByZero when it reaches the result (the bar is
\* finished), and otherwise it failed in mode setup, reading .module of a
\* model without wrapper in an eval phase with more than one configured gpu.
C8_NoCycleNeverReturns ==
    (Ended /\ Cycles = 0) =>
        /\ call.outcome = "raised"
        /\ ret = NoRet
        /\ IF phase # "train" /\ Len(opt.gpus) > 1 /\ model = 0
           THEN call.err = "AttributeError" /\ ~bar.finished
           ELSE call.err = "DivideByZero" /\ bar.finished
                   /\ Count(log, "shuffle") = 1

\* an epoch over a loader with batches, cut to nothing by a cap of 0
C8_Witness ==
    /\ Ended /\ Cycles = 0
    /\ num_iters = 0 /\ loader.total > 0
    /\ call.err = "DivideByZero"

\* C9: set_device fails with DeviceUnavailable, and changes neither the model
\* nor the optimizer state, whenever gpus names a device that is not on the
\* machine.
C9_MissingGpuFailsBinding ==
    (/\ pc = "idle"
     /\ call.op = "set_device"
     /\ \E i \in 1..Len(call.gpus) : ~DeviceExists(CudaDevice(call.gpus[i])))
        => /\ call.outcome = "raised"
           /\ call.err = "DeviceUnavailable"
           /\ model = model0
           /\ optimizer = optimizer0

CycleOrder == <<"forward", "zero_grad", "backward", "step">>

\* the collaborator calls of the batch cycles: the log without the shuffle
CycleCalls == SelectSeq(log, LAMBDA x : x # "shuffle")

\* C10: in a train-phase run_epoch the calls of the batch cycles are forward,
\* zero_grad, backward, step, in that order and once each per cycle, one
\* cycle after the other; when the call returns the optimizer has taken as
\* many steps as there were cycles.
C10_TrainCycleOrder ==
    (InEpoch /\ phase = "train") =>
        /\ \A i \in 1..Len(CycleCalls) :
              CycleCalls[i] = CycleOrder[((i - 1) % Len(CycleOrder)) + 1]
        /\ pc \in {"loop", "stats", "shuffle", "finish"}
              => Len(CycleCalls) = Len(CycleOrder) * Cycles
        /\ Returned =>
              /\ Len(CycleCalls) = Len(CycleOrder) * Cycles
              /\ Count(log, "step") = Cycles
              /\ OptimizerSteps(optimizer) = OptimizerSteps(optimizer0) + Cycles

\* a returned train call over two batches
C10_Witness ==
    Returned /\ phase = "train" /\ Cycles = 2

\* failures of the model and the optimizer inside a batch cycle
Faults == {"ForwardError", "BackwardError", "StepError"}

\* C11: when forward, backward or the optimizer step fails on batch i,
\* run_epoch ends there with that error: it returns no result, the failing
\* batch is the last one drawn and forwarded and was forwarded once, and
\* after a failure in forward or backward the optimizer has taken no step
\* for batch i.
C11_FailureAbortsEpoch ==
    (InEpoch /\ call.err \in Faults) =>
        /\ pc = "idle"
        /\ call.outcome = "raised"
        /\ ret = NoRet
        /\ loader.drawn = batch_i + 1
        /\ Cycles = batch_i + 1
        /\ Len(seen) = batch_i + 1
        /\ call.err \in {"ForwardError", "BackwardError"} =>
              /\ Count(log, "step") = (IF phase = "train" THEN batch_i ELSE 0)
              /\ OptimizerSteps(optimizer)
                    = OptimizerSteps(optimizer0) + Count(log, "step")

\* backward fails on the first of two batches the cap would have admitted
C11_Witness ==
    /\ Ended
    /\ call.err = "BackwardError"
    /\ Cycles = 1
    /\ loader.total = 2
    /\ num_iters >= 2

\* C12: the number of batches drawn from the loader during a run_epoch call
\* equals the number of batch cycles performed.
C12_DrawnEqualsCycles ==
    Returned => loader.drawn = Cycles

\* C13, as claimed: in a run_epoch call of a phase other than train with
\* len(opt.gpus) > 1 every forward goes to the network without any wrapper;
\* in a train call it goes to self.model; run_epoch leaves self.model as it
\* found it.
C13_EvalForwardsUnwrapped ==
    (InEpoch /\ Cycles >= 1) =>
        /\ (phase # "train" /\ Len(opt.gpus) > 1) => fwdModel = 0
        /\ phase = "train" => fwdModel = model
        /\ model = model0

\* C13, amended: in a run_epoch call of a phase other than train with
\* len(opt.gpus) > 1 every forward goes to self.model.module, the model
\* inside the outermost wrapper, which is the network without wrapper exactly
\* when set_device has wrapped the model once; in a train call it goes to
\* self.model; run_epoch leaves self.model as it found it.
C13_EvalForwardsModule ==
    (InEpoch /\ Cycles >= 1) =>
        /\ (phase # "train" /\ Len(opt.gpus) > 1) =>
              /\ fwdModel = model - 1
              /\ fwdModel = 0 <=> model = 1
        /\ phase = "train" => fwdModel = model
        /\ model = model0

\* an eval forward on a once-wrapped model with two configured gpus
C13_Witness ==
    /\ InEpoch /\ Cycles >= 1
    /\ phase = "val" /\ Len(opt.gpus) > 1
    /\ model = 1 /\ fwdModel = 0

\* C14, as claimed: no optimizer step is performed on a trainer on which
\* set_device has not returned.
C14_StepOnlyWhenBound ==
    (InEpoch /\ Count(log, "step") >= 1) => bound

\* C14, amended: in an execution where set_device has returned before the
\* epoch, binding is complete at every optimizer step: the model and every
\* tensor of the optimizer state are on the bound device.  The trainer does
\* not require it: on a trainer that was never bound the steps are taken on
\* the model and the optimizer state as constructed.
C14_StepFindsBindingComplete ==
    (InEpoch /\ Count(log, "step") >= 1) =>
        IF bound
        THEN AllTensorsOn(optimizer, modelDevice)
        ELSE model = 0 /\ modelDevice = CpuDevice
                /\ AllTensorsOn(optimizer, CpuDevice)

\* an optimizer step on a trainer bound to the cuda device
C14_Witness ==
    /\ InEpoch /\ Count(log, "step") >= 1
    /\ bound /\ modelDevice = CudaDevice(0)
    /\ AllTensorsOn(optimizer, CudaDevice(0))

\* the batches whose statistics update has been made: those forwarded, less
\* the one in its cycle or the one that failed
Processed ==
    IF pc \in {"zero_grad", "backward", "step", "stats"} \/ call.err \in Faults
    THEN SubSeq(seen, 1, Len(seen) - 1)
    ELSE seen

\* C15: throughout a run_epoch call, whatever calls came before it, every
\* running statistic holds the sample count and the weighted sum of the
\* batches processed in this call alone, so after k cycles its count is the
\* number of samples in those k batches; and within a call no count
\* decreases.
C15_StatsFreshPerCall ==
    /\ [](InEpoch =>
            \A l \in loss_stats :
                /\ avg_loss_stats[l].count = Samples(Processed)
                /\ avg_loss_stats[l].sum = WeightedSum(Processed, l))
    /\ [][pc # "idle" =>
            \A l \in loss_stats :
                avg_loss_stats'[l].count >= avg_loss_stats[l].count]_vars

\* an eval call returns after a batch of 3 samples, following a train call
\* that had processed batches of its own
C15_Witness ==
    /\ Returned
    /\ phase = "val"
    /\ OptimizerSteps(optimizer0) >= 1
    /\ seen = << [n |-> 3, stats |-> LowReport] >>
    /\ avg_loss_stats["tot_loss"].count = 3

\* C16, as claimed: in a run_epoch call no average of a running statistic is
\* read before that statistic has had an update, neither for the progress
\* line nor for the result.
C16_NoReadBeforeUpdate ==
    InEpoch =>
        /\ call.err # "DivideByZero"
        /\ bar.finished => \A l \in loss_stats : avg_loss_stats[l].count > 0

\* C16, amended: in a run_epoch call that performs at least one batch cycle
\* every read of an average follows an update of that statistic; the one
\* read without an update is the read for the result in a call that
\* performed no cycle, and it fails with DivideByZero.
C16_ReadsFollowUpdatesAfterFirstCycle ==
    InEpoch =>
        /\ call.err = "DivideByZero" => (Cycles = 0 /\ bar.finished)
        /\ (bar.finished /\ Cycles >= 1) =>
              \A l \in loss_stats : avg_loss_stats[l].count > 0
        /\ (bar.finished /\ Cycles = 0) => call.err = "DivideByZero"

\* a call that read the averages in two progress lines and for its result
C16_Witness ==
    /\ Returned /\ Cycles = 2 /\ bar.finished
    /\ \A l \in loss_stats : avg_loss_stats[l].count >= 2

\* C17: at every forward call the model that receives it is in training mode
\* exactly when the phase of the current call is 'train', whatever the
\* phases of the calls before; every other phase value runs it in evaluation
\* mode.
C17_ModeFollowsPhaseOfCall ==
    (InEpoch /\ (pc = "forward" \/ Cycles >= 1)) =>
        (training[fwdModel] <=> (phase = "train"))

\* an eval forward in a call that follows a train epoch
C17_Witness ==
    /\ InEpoch /\ Cycles >= 1
    /\ phase = "test"
    /\ OptimizerSteps(optimizer0) >= 1
    /\ ~training[fwdModel]

\* C18: a save_result call stores one entry in the results mapping, under
\* the batch's first image id.
C18_SaveWritesItsKey ==
    (pc = "idle" /\ call.op = "save_result") =>
        /\ call.outcome = "returned"
        /\ call.img_id \in DOMAIN results

\* C19: during and after a run_epoch call, with print_iter = N > 0 one
\* progress line has been printed for each completed batch cycle whose index
\* i has i mod N = 0 and for no other, and the bar has not been advanced; with
\* print_iter = 0 nothing has been printed and the bar has been advanced once
\* per completed batch cycle, never past the cap it was opened with.  When
\* the call returns every batch cycle is a completed one.
C19_ProgressIsModeExclusive ==
    InEpoch =>
        LET done == Len(Processed)
        IN  /\ Returned => done = Cycles
            /\ opt.print_iter > 0 =>
                  /\ bar.printed =
                        Cardinality({i \in 0 .. done - 1 :
                                        i % opt.print_iter = 0})
                  /\ bar.index = 0
            /\ opt.print_iter = 0 =>
                  /\ bar.printed = 0
                  /\ bar.index = done
                  /\ bar.index <= bar.max

\* a call that returned after two batch cycles with print_iter = 2: one line
\* was printed, for index 0
C19_Witness ==
    /\ Returned
    /\ opt.print_iter = 2
    /\ Cycles = 2
    /\ bar.printed = 1
    /\ bar.index = 0

\* a call that returned after two batch cycles with print_iter = 0: the bar
\* was advanced twice
C19_WitnessBar ==
    /\ Returned
    /\ opt.print_iter = 0
    /\ Cycles = 2
    /\ bar.index = 2

====
